---- MODULE Spec2Model ----
(***************************************************************************)
(* DOCKER_PORT_CONFIGURATION.py: the run of main().                         *)
(*                                                                         *)
(*   DockerPortConfiguration()          registry build                     *)
(*   generate_port_configuration_report scan, descriptor writes, report    *)
(*   main                               console summary, exit code         *)
(*                                                                         *)
(* The literal port table of the source (45 literal entries in 7 groups,   *)
(* 26 generated frontend entries) is scaled down: two literal groups       *)
(* (iza_os before the frontend block, databases after it) of at most       *)
(* MaxLiteral entries each, drawn from LiteralPorts, and a frontend block  *)
(* of projectCount generated entries.  The fields protocol, description,   *)
(* container and health_check of PortConfig are never read by the scan and *)
(* are left out.                                                           *)
(***************************************************************************)
EXTENDS Integers, Sequences, FiniteSets, TLC

VARIABLES
    pc,              \* position of the run of main()
    iza_os_ports,    \* literal list, lines 74-82
    database_ports,  \* literal list, lines 124-131
    projectCount,    \* number of frontend projects, range(1, 27)
    i,               \* loop variable of the frontend block
    frontend_ports,  \* list built by the frontend loop
    port_configs,    \* self.port_configs
    service_ports,   \* self.service_ports (ports held as indices of port_configs)
    conflicts,       \* self.conflicts
    used_ports,      \* local dict of scan_port_conflicts
    idx,             \* position of the scan loop in port_configs
    probe_log,       \* outcome of the bind of each entry probed so far
    g,               \* position of the descriptor loop in service_ports
    events,          \* probes and file writes in the order they happened
    report,          \* <<>> or <<the dict generate_port_mapping_report returned>>
    raised,          \* the step whose exception main caught, or "none"
    exit_code        \* -1 while running, then the value main returns

vars == <<pc, iza_os_ports, database_ports, projectCount, i, frontend_ports,
          port_configs, service_ports, conflicts, used_ports, idx, probe_log,
          g, events, report, raised, exit_code>>

---------------------------------------------------------------------------
(* Bounds of the model *)

MaxLiteral == 1

MaxProjects == 2

(* Program constants *)

FrontendProjectCount == 26

FrontendRangeStart == 3000

\* Ports a literal entry may carry: one inside the frontend block, one outside.
LiteralPorts == {8001, 3001}

\* What s.bind(('localhost', port)) can do.
ProbeOutcomes == {"bound", "addr_in_use", "other_oserror"}

\* What open(path, 'w') / f.write / json.dump / print can do.
IoOutcomes == {"ok", "raises"}

ReportFile == "docker_port_configuration_report.json"

---------------------------------------------------------------------------
(* Registry build: DockerPortConfiguration.initialize_port_configurations *)

PortConfig(port, service, component) ==
    [port |-> port, service |-> service, component |-> component,
     status |-> "available"]

\* f"frontend-project-{i:02d}"
FrontendService(n) ==
    "frontend-project-" \o (IF n < 10 THEN "0" ELSE "") \o ToString(n)

FrontendPort_OffByOne(n) == FrontendRangeStart + n - 1

\* port = 3000 + i
FrontendPort(n) == FrontendRangeStart + n

\* A literal list of one component: entry k is PortConfig(ports[k], "<prefix>-k", component).
LiteralList(ports, prefix, component) ==
    [k \in 1..Len(ports) |->
        PortConfig(ports[k], prefix \o "-" \o ToString(k), component)]

LiteralPortLists == UNION {[1..n -> LiteralPorts] : n \in 0..MaxLiteral}

\* ServicePorts(service_name, component, ports, docker_compose); ports are the
\* same PortConfig objects as in port_configs, kept here as their indices.
ServicePorts(service_name, component, first, count, docker_compose) ==
    [service_name |-> service_name, component |-> component,
     ports |-> [k \in 1..count |-> first + k - 1],
     docker_compose |-> docker_compose]

InitCommon ==
    /\ pc = "init"
    /\ \E ports \in LiteralPortLists :
          iza_os_ports = LiteralList(ports, "iza", "iza_os")
    /\ \E ports \in LiteralPortLists :
          database_ports = LiteralList(ports, "db", "databases")
    /\ i = 1
    /\ frontend_ports = <<>>
    /\ port_configs = <<>>
    /\ service_ports = <<>>
    /\ conflicts = <<>>
    /\ used_ports = <<>>
    /\ idx = 0
    /\ probe_log = <<>>
    /\ g = 0
    /\ events = <<>>
    /\ report = <<>>
    /\ raised = "none"
    /\ exit_code = -1

Init ==
    /\ InitCommon
    /\ projectCount \in 0..MaxProjects

\* The registry build alone, with the project count of the source.
InitBuild ==
    /\ InitCommon
    /\ projectCount = FrontendProjectCount

\* for i in range(1, projectCount + 1): frontend_ports.append(PortConfig(...))
FrontendLoop ==
    /\ pc = "init"
    /\ i <= projectCount
    /\ frontend_ports' =
          Append(frontend_ports, PortConfig(FrontendPort(i), FrontendService(i), "frontend"))
    /\ i' = i + 1
    /\ UNCHANGED <<pc, iza_os_ports, database_ports, projectCount, port_configs,
                   service_ports, conflicts, used_ports, idx, probe_log, g,
                   events, report, raised, exit_code>>

\* self.port_configs = ... + ...; self.service_ports = [...]; no check of any kind.
Combine ==
    /\ pc = "init"
    /\ i > projectCount
    /\ port_configs' = iza_os_ports \o frontend_ports \o database_ports
    /\ service_ports' =
          << ServicePorts("iza-os", "iza_os", 1, Len(iza_os_ports),
                          "docker-compose.iza-os.yml"),
             ServicePorts("frontend-projects", "frontend", Len(iza_os_ports) + 1,
                          Len(frontend_ports), "docker-compose.frontend.yml"),
             ServicePorts("databases", "databases",
                          Len(iza_os_ports) + Len(frontend_ports) + 1,
                          Len(database_ports), "docker-compose.databases.yml") >>
    /\ pc' = "scan"
    /\ UNCHANGED <<iza_os_ports, database_ports, projectCount, i, frontend_ports,
                   conflicts, used_ports, idx, probe_log, g, events, report,
                   raised, exit_code>>

NextBuild == FrontendLoop \/ Combine

SpecBuild == InitBuild /\ [][NextBuild]_vars

---------------------------------------------------------------------------
(* Conflict scan: check_port_availability and scan_port_conflicts *)

\* try: s.bind(...); return True / except OSError: return False
check_port_availability(outcome) == outcome = "bound"

StatusAfterProbe_Inverted(available) == IF available THEN "conflict" ELSE "available"

\* port_config.status = "conflict" (not available) / "available"
StatusAfterProbe(available) == IF available THEN "available" ELSE "conflict"

\* if port_config.port in used_ports
AlreadyUsed(used, port) == port \in DOMAIN used

ConflictRecord(port, first, second) ==
    [port |-> port, services |-> <<first, second>>,
     conflict_type |-> "port_already_used"]

ConflictsAfterProbe_EveryBusy(confl, used, port_config, available) ==
    IF ~available
    THEN Append(confl, ConflictRecord(port_config.port,
                                      IF AlreadyUsed(used, port_config.port)
                                      THEN used[port_config.port]
                                      ELSE port_config.service,
                                      port_config.service))
    ELSE confl

\* The body of "if not self.check_port_availability(...)": the record appended.
ConflictsAfterProbe(confl, used, port_config, available) ==
    IF ~available /\ AlreadyUsed(used, port_config.port)
    THEN Append(confl, ConflictRecord(port_config.port, used[port_config.port],
                                      port_config.service))
    ELSE confl

\* used_ports[port_config.port] = port_config.service, in the else of the membership test
UsedPortsAfterProbe(used, port_config, available) ==
    IF ~available /\ ~AlreadyUsed(used, port_config.port)
    THEN [p \in DOMAIN used \cup {port_config.port} |->
             IF p = port_config.port THEN port_config.service ELSE used[p]]
    ELSE used

ProbeEvent(n) == [kind |-> "probe", n |-> n, name |-> "localhost"]

DescriptorEvent(n) ==
    [kind |-> "descriptor", n |-> n, name |-> service_ports[n].docker_compose]

ReportEvent == [kind |-> "report", n |-> 0, name |-> ReportFile]

\* self.conflicts = []; used_ports = {}
ScanBegin ==
    /\ pc = "scan"
    /\ idx = 0
    /\ conflicts' = <<>>
    /\ used_ports' = <<>>
    /\ idx' = 1
    /\ UNCHANGED <<pc, iza_os_ports, database_ports, projectCount, i,
                   frontend_ports, port_configs, service_ports, probe_log, g,
                   events, report, raised, exit_code>>

\* One iteration of "for port_config in self.port_configs".
ScanStep ==
    /\ pc = "scan"
    /\ idx >= 1
    /\ idx <= Len(port_configs)
    /\ \E outcome \in ProbeOutcomes :
          LET port_config == port_configs[idx]
              available == check_port_availability(outcome)
          IN  /\ port_configs' =
                    [port_configs EXCEPT ![idx].status = StatusAfterProbe(available)]
              /\ conflicts' =
                    ConflictsAfterProbe(conflicts, used_ports, port_config, available)
              /\ used_ports' = UsedPortsAfterProbe(used_ports, port_config, available)
              /\ probe_log' = Append(probe_log, outcome)
    /\ events' = Append(events, ProbeEvent(idx))
    /\ idx' = idx + 1
    /\ UNCHANGED <<pc, iza_os_ports, database_ports, projectCount, i,
                   frontend_ports, service_ports, g, report, raised, exit_code>>

\* The loop is exhausted; scan_port_conflicts logs and returns.
ScanEnd ==
    /\ pc = "scan"
    /\ idx > Len(port_configs)
    /\ pc' = "compose"
    /\ g' = 1
    /\ UNCHANGED <<iza_os_ports, database_ports, projectCount, i, frontend_ports,
                   port_configs, service_ports, conflicts, used_ports, idx,
                   probe_log, events, report, raised, exit_code>>

---------------------------------------------------------------------------
(* Descriptors and report *)

RECURSIVE ComponentPortsUpTo(_, _)
\* component_ports after the first n entries of the grouping loop
ComponentPortsUpTo(pcs, n) ==
    IF n = 0 THEN <<>>
    ELSE LET prev == ComponentPortsUpTo(pcs, n - 1)
             c == pcs[n].component
             entry == [port |-> pcs[n].port, service |-> pcs[n].service,
                       status |-> pcs[n].status]
             old == IF c \in DOMAIN prev THEN prev[c] ELSE <<>>
         IN  [d \in DOMAIN prev \cup {c} |->
                 IF d = c THEN Append(old, entry) ELSE prev[d]]

CountStatus(pcs, status) ==
    Cardinality({k \in 1..Len(pcs) : pcs[k].status = status})

TotalPorts_AvailableOnly(pcs) == CountStatus(pcs, "available")

\* total_ports = len(self.port_configs)
TotalPorts(pcs) == Len(pcs)

\* The dict returned; availability_percentage, port_ranges and the fixed
\* recommendations are left out.
generate_port_mapping_report(pcs, sps, confl) ==
    [port_mapping_summary |->
        [total_ports |-> TotalPorts(pcs),
         available_ports |-> CountStatus(pcs, "available"),
         conflict_ports |-> CountStatus(pcs, "conflict"),
         total_services |-> Len(sps)],
     component_ports |-> ComponentPortsUpTo(pcs, Len(pcs)),
     port_conflicts |-> confl,
     service_configurations |->
        [k \in 1..Len(sps) |->
            [service_name |-> sps[k].service_name,
             component |-> sps[k].component,
             port_count |-> Len(sps[k].ports),
             docker_compose |-> sps[k].docker_compose]]]

MainReturnValue_Swallowed(r) == 0

\* return 1 in "except Exception", return 0 at the end of main
MainReturnValue(r) == IF r = "none" THEN 0 ELSE 1

\* A failed write is skipped and the loop goes on to the next group.
WriteDescriptor_SkipFailed ==
    /\ pc = "compose"
    /\ g <= Len(service_ports)
    /\ \E io \in IoOutcomes :
          events' = IF io = "ok" THEN Append(events, DescriptorEvent(g)) ELSE events
    /\ g' = g + 1
    /\ UNCHANGED <<pc, raised, iza_os_ports, database_ports, projectCount, i,
                   frontend_ports, port_configs, service_ports, conflicts,
                   used_ports, idx, probe_log, report, exit_code>>

\* One iteration of "for service in self.service_ports": open, write, close.
WriteDescriptor ==
    /\ pc = "compose"
    /\ g <= Len(service_ports)
    /\ \E io \in IoOutcomes :
          IF io = "ok"
          THEN /\ events' = Append(events, DescriptorEvent(g))
               /\ g' = g + 1
               /\ UNCHANGED <<pc, raised>>
          ELSE /\ raised' = "descriptor"
               /\ pc' = "return"
               /\ UNCHANGED <<events, g>>
    /\ UNCHANGED <<iza_os_ports, database_ports, projectCount, i, frontend_ports,
                   port_configs, service_ports, conflicts, used_ports, idx,
                   probe_log, report, exit_code>>

\* report = self.generate_port_mapping_report()
GenerateReport ==
    /\ pc = "compose"
    /\ g > Len(service_ports)
    /\ report' = <<generate_port_mapping_report(port_configs, service_ports, conflicts)>>
    /\ pc' = "report"
    /\ UNCHANGED <<iza_os_ports, database_ports, projectCount, i, frontend_ports,
                   port_configs, service_ports, conflicts, used_ports, idx,
                   probe_log, g, events, raised, exit_code>>

\* with open(report_path, 'w') as f: json.dump(report, f, indent=2)
WriteReport ==
    /\ pc = "report"
    /\ \E io \in IoOutcomes :
          IF io = "ok"
          THEN /\ events' = Append(events, ReportEvent)
               /\ pc' = "print"
               /\ UNCHANGED raised
          ELSE /\ raised' = "report"
               /\ pc' = "return"
               /\ UNCHANGED events
    /\ UNCHANGED <<iza_os_ports, database_ports, projectCount, i, frontend_ports,
                   port_configs, service_ports, conflicts, used_ports, idx,
                   probe_log, g, report, exit_code>>

\* The print calls of main, inside its try.
PrintSummary ==
    /\ pc = "print"
    /\ \E io \in IoOutcomes :
          raised' = IF io = "ok" THEN "none" ELSE "print"
    /\ pc' = "return"
    /\ UNCHANGED <<iza_os_ports, database_ports, projectCount, i, frontend_ports,
                   port_configs, service_ports, conflicts, used_ports, idx,
                   probe_log, g, events, report, exit_code>>

\* exit_code = asyncio.run(main()); exit(exit_code)
MainReturn ==
    /\ pc = "return"
    /\ exit_code' = MainReturnValue(raised)
    /\ pc' = "exit"
    /\ UNCHANGED <<iza_os_ports, database_ports, projectCount, i, frontend_ports,
                   port_configs, service_ports, conflicts, used_ports, idx,
                   probe_log, g, events, report, raised>>

Next ==
    \/ FrontendLoop
    \/ Combine
    \/ ScanBegin
    \/ ScanStep
    \/ ScanEnd
    \/ WriteDescriptor
    \/ GenerateReport
    \/ WriteReport
    \/ PrintSummary
    \/ MainReturn

Spec == Init /\ [][Next]_vars

---------------------------------------------------------------------------
(* Properties *)

Entries == 1..Len(port_configs)

\* scan_port_conflicts has returned
ScanDone == pc \in {"compose", "report", "print", "return", "exit"}

EntriesOn(port) == {k \in Entries : port_configs[k].port = port}

RegistryPorts == {port_configs[k].port : k \in Entries}

FirstOn(port) == CHOOSE k \in EntriesOn(port) : \A j \in EntriesOn(port) : k <= j

BusyPredicates == [RegistryPorts -> BOOLEAN]

\* Every probe of the scan answered as the predicate busy says.
ProbesFollow(busy) ==
    \A k \in 1..Len(probe_log) :
        probe_log[k] = IF busy[port_configs[k].port] THEN "addr_in_use" ELSE "bound"

\* C1: with the probe replaced by a fixed predicate busy on port numbers, after
\* the scan an entry has status "conflict" iff its port is busy and every other
\* entry has status "available".
C1_StatusFollowsBusy ==
    ScanDone =>
        \A busy \in BusyPredicates :
            ProbesFollow(busy) =>
                \A k \in Entries :
                    port_configs[k].status =
                        IF busy[port_configs[k].port] THEN "conflict" ELSE "available"

C1_Witness ==
    /\ ScanDone
    /\ \E busy \in BusyPredicates :
          /\ ProbesFollow(busy)
          /\ \E k, j \in Entries :
                busy[port_configs[k].port] /\ ~busy[port_configs[j].port]

\* C2: two entries on one port (svcA before svcB), the port free at every probe:
\* the scan still records a conflict of type port_already_used naming [svcA, svcB].
C2_DuplicateOnFreePortRecorded ==
    ScanDone =>
        \A k, j \in Entries :
            ( /\ k < j
              /\ EntriesOn(port_configs[k].port) = {k, j}
              /\ probe_log[k] = "bound"
              /\ probe_log[j] = "bound" )
            => \E r \in 1..Len(conflicts) :
                  conflicts[r] = ConflictRecord(port_configs[k].port,
                                                port_configs[k].service,
                                                port_configs[j].service)

C4_ProbeErrorNotConflict ==
    \A k \in 1..Len(probe_log) :
        probe_log[k] = "other_oserror" =>
            /\ port_configs[k].status # "conflict"
            /\ Len(probe_log) = k

\* C5: a busy entry whose port no other entry shares is marked "conflict" and
\* has no conflict record; a conflict record for port p exists only if at
\* least two entries have port p.
C5_RecordsOnlyForSharedPorts ==
    ScanDone =>
        /\ \A k \in Entries :
              (probe_log[k] = "addr_in_use" /\ EntriesOn(port_configs[k].port) = {k})
              => /\ port_configs[k].status = "conflict"
                 /\ \A r \in 1..Len(conflicts) : conflicts[r].port # port_configs[k].port
        /\ \A r \in 1..Len(conflicts) :
              Cardinality(EntriesOn(conflicts[r].port)) >= 2

C5_Witness ==
    /\ ScanDone
    /\ Len(conflicts) >= 1
    /\ \E k \in Entries :
          probe_log[k] = "addr_in_use" /\ EntriesOn(port_configs[k].port) = {k}

ProbeEvents == [k \in Entries |-> ProbeEvent(k)]

DescriptorEvents == [k \in 1..Len(service_ports) |-> DescriptorEvent(k)]

\* What a run that completes does, in order.
FullRun == ProbeEvents \o DescriptorEvents \o <<ReportEvent>>

RECURSIVE SumOfLengths(_, _)
SumOfLengths(cp, comps) ==
    IF comps = {} THEN 0
    ELSE LET c == CHOOSE x \in comps : TRUE
         IN  Len(cp[c]) + SumOfLengths(cp, comps \ {c})

\* C7: in the report, port_mapping_summary.total_ports equals the sum of the
\* lengths of the component_ports lists.
C7_TotalIsSumOfComponentLists ==
    report # <<>> =>
        report[1].port_mapping_summary.total_ports =
            SumOfLengths(report[1].component_ports, DOMAIN report[1].component_ports)

C7_Witness ==
    /\ report # <<>>
    /\ report[1].port_mapping_summary.total_ports >= 3
    /\ report[1].port_mapping_summary.conflict_ports >= 1
    /\ Cardinality(DOMAIN report[1].component_ports) >= 2

FrontendEntries == SelectSeq(port_configs, LAMBDA e : e.component = "frontend")

\* C8: the generated frontend entries of the built registry are exactly
\* projectCount in number, entry k on port rangeStart + k (contiguous from
\* rangeStart + 1, no gaps), pairwise distinct.
C8_FrontendBlockContiguous ==
    pc # "init" =>
        /\ Len(FrontendEntries) = projectCount
        /\ \A k \in 1..Len(FrontendEntries) :
              FrontendEntries[k].port = FrontendRangeStart + k
        /\ \A k, j \in 1..Len(FrontendEntries) :
              FrontendEntries[k].port = FrontendEntries[j].port => k = j

C8_Witness ==
    /\ pc # "init"
    /\ projectCount = FrontendProjectCount
    /\ Len(FrontendEntries) = 26
    /\ FrontendEntries[26].port = 3026

RecordsOn(port) == SelectSeq(conflicts, LAMBDA r : r.port = port)

\* The entries on a port after its first one, in table order.
RECURSIVE LaterOn(_, _)
LaterOn(port, n) ==
    IF n = 0 THEN <<>>
    ELSE IF n \in EntriesOn(port) /\ n # FirstOn(port)
         THEN Append(LaterOn(port, n - 1), n)
         ELSE LaterOn(port, n - 1)

\* C9: after a scan the bookkeeping map holds, for a port, the first entry on it
\* in table order, and every later entry on that port has exactly one record
\* [first service, later service], whatever the probes answered.
C9_EveryLaterEntryRecorded ==
    ScanDone =>
        \A port \in RegistryPorts :
            LET first == port_configs[FirstOn(port)].service
                later == LaterOn(port, Len(port_configs))
            IN  /\ port \in DOMAIN used_ports => used_ports[port] = first
                /\ RecordsOn(port) =
                      [m \in 1..Len(later) |->
                          ConflictRecord(port, first, port_configs[later[m]].service)]

IsPrefix(s, t) == Len(s) <= Len(t) /\ s = SubSeq(t, 1, Len(s))

\* C10: probes of every entry, then one descriptor per group in group order,
\* then the report; after a failed descriptor write of group g nothing more is
\* written: the run did the probes and the descriptors of groups 1..g-1 only.
C10_PipelineOrder ==
    /\ IsPrefix(events, FullRun)
    /\ raised = "descriptor" =>
          events = ProbeEvents \o SubSeq(DescriptorEvents, 1, g - 1)
    /\ pc = "exit" /\ raised = "none" => events = FullRun

C10_Witness ==
    /\ pc = "exit"
    /\ raised = "descriptor"
    /\ g = 2
    /\ Len(port_configs) >= 2
    /\ Len(events) = Len(port_configs) + 1

====
